---- MODULE Spec2Model ----
(***************************************************************************)
(* Model of code/chap07.ipynb (ModSimPy, chapter 7: thermal systems).      *)
(*                                                                         *)
(* A notebook session binds names to System objects and calls update,      *)
(* run_simulation, final_temp, make_system and mix on them.  Temperatures  *)
(* and rates are exact rationals <<num, den>>; the rounding of Python's    *)
(* floats is not modelled.  Times are integers.  Where a run is too long   *)
(* for exact rationals (the 30 steps of the calibration) a temperature is  *)
(* an enclosure <<lo, hi, scale>>: the exact value lies between lo/scale   *)
(* and hi/scale.                                                           *)
(***************************************************************************)
EXTENDS Integers, Sequences, FiniteSets, TLC

(***************************************************************************)
(* Bounds of the model.                                                    *)
(***************************************************************************)
MaxRateNum == 3     \* rates are k / RateDen for k in 0..MaxRateNum
RateDen    == 2
MaxT0      == 1     \* t0 in 0..MaxT0
MaxTEnd    == 3     \* t_end in -MaxNegTEnd..MaxTEnd
MaxNegTEnd == 1
MaxDt      == 2     \* dt in -MaxNegDt..MaxDt
MaxNegDt   == 1
MaxTotal == 3       \* run_and_mix: t_total in 0..MaxTotal, t_add in -1..MaxTotal + 1
MaxTrialRate == 10  \* in the trial session, rates are k / 100 for k in 1..MaxTrialRate
MaxMixRateNum == 1  \* in the mixing session, rates are k / RateDen for k in 0..MaxMixRateNum
MaxMixTEnd    == 2  \* in the mixing session, t_end in 0..MaxMixTEnd
TempScale  == 10000 \* enclosures count in 1/TempScale degrees
RateScale  == 2000  \* the root search moves on rates k / RateScale
MaxRateK   == 60    \* for k in 0..MaxRateK
MaxIter    == 30    \* the root search's iteration budget
Epsilon    == 5000  \* its tolerance, in 1/TempScale degrees

(***************************************************************************)
(* Exact rational arithmetic.                                              *)
(***************************************************************************)
Abs(x) == IF x < 0 THEN -x ELSE x

RECURSIVE GCD(_, _)
GCD(a, b) == IF b = 0 THEN a ELSE GCD(b, a % b)

\* the rational n/d in lowest terms with a positive denominator
Rat(n, d) ==
    LET s == IF d < 0 THEN -1 ELSE 1
        g == GCD(Abs(n), Abs(d))
    IN  <<(s * n) \div g, (s * d) \div g>>

RInt(i)    == <<i, 1>>
RNeg(a)    == <<-a[1], a[2]>>
RAdd(a, b) == Rat(a[1] * b[2] + b[1] * a[2], a[2] * b[2])
RSub(a, b) == RAdd(a, RNeg(b))
RMul(a, b) == Rat(a[1] * b[1], a[2] * b[2])
RDiv(a, b) == Rat(a[1] * b[2], a[2] * b[1])
RLe(a, b)  == a[1] * b[2] <= b[1] * a[2]
RLt(a, b)  == a[1] * b[2] < b[1] * a[2]
RAbs(a)    == <<Abs(a[1]), a[2]>>
RSign(a)   == IF a[1] > 0 THEN 1 ELSE IF a[1] < 0 THEN -1 ELSE 0

(***************************************************************************)
(* Enclosures.                                                             *)
(***************************************************************************)
Min(a, b) == IF a <= b THEN a ELSE b
Max(a, b) == IF a >= b THEN a ELSE b
Floor(a, d) == a \div d
Ceil(a, d)  == -((-a) \div d)

IsEnclosure(T) == Len(T) = 3
Enclose(i)     == <<i * TempScale, i * TempScale, TempScale>>
\* the enclosure T minus the integer i
EShift(T, i)   == <<T[1] - i * T[3], T[2] - i * T[3], T[3]>>

(***************************************************************************)
(* Input domains.                                                          *)
(***************************************************************************)
Names   == {"coffee", "milk", "mixture"}
Rates   == {Rat(k, RateDen) : k \in 0..MaxRateNum}
TInits  == {5, 90}
T0s     == 0..MaxT0
TEnds   == (-MaxNegTEnd)..MaxTEnd
Dts     == (-MaxNegDt)..MaxDt
MixRates == {Rat(k, RateDen) : k \in 0..MaxMixRateNum}
MixTEnds == 0..MaxMixTEnd
TTotals == 0..MaxTotal
TAdds   == (-1)..(MaxTotal + 1)
TrialRates == {Rat(k, 100) : k \in 1..MaxTrialRate}

(***************************************************************************)
(* System objects.  A TimeFrame is the sequence of its rows <<t, temp>>    *)
(* in insertion order.  hasResults is hasattr(system, 'results').          *)
(***************************************************************************)
System(T_init, volume, r, T_env, t0, t_end, dt) ==
    [bound |-> TRUE, init |-> T_init, volume |-> volume, r |-> r,
     T_env |-> T_env, t0 |-> t0, t_end |-> t_end, dt |-> dt,
     hasResults |-> FALSE, results |-> <<>>]

Unbound ==
    [bound |-> FALSE, init |-> RInt(0), volume |-> 0, r |-> RInt(0),
     T_env |-> 0, t0 |-> 0, t_end |-> 0, dt |-> 0,
     hasResults |-> FALSE, results |-> <<>>]

\* the parameter fields of a system: everything but its results
Params(s) ==
    [init |-> s.init, volume |-> s.volume, r |-> s.r, T_env |-> s.T_env,
     t0 |-> s.t0, t_end |-> s.t_end, dt |-> s.dt]

DefaultTEnv == 22
DefaultDt   == 1
DefaultT0   == 0
DefaultTEnd == 30

\* mutant: the room is at 20 C
make_system_other_env(T_init, r, volume, t_end) ==
    System(T_init, volume, r, 20, DefaultT0, t_end, DefaultDt)

make_system(T_init, r, volume, t_end) ==
    System(T_init, volume, r, DefaultTEnv, DefaultT0, t_end, DefaultDt)

(***************************************************************************)
(* TimeFrame access.                                                       *)
(***************************************************************************)
FrameIndex(frame) == {frame[i][1] : i \in 1..Len(frame)}

FrameHas(frame, t) == t \in FrameIndex(frame)

\* frame.loc[t] of a label in the index
FrameLoc(frame, t) ==
    frame[CHOOSE i \in 1..Len(frame) : frame[i][1] = t][2]

\* frame.loc[t] = temp: overwrites the row labelled t, or appends one
FrameSet(frame, t, temp) ==
    IF FrameHas(frame, t)
    THEN [i \in 1..Len(frame) |->
             IF frame[i][1] = t THEN <<t, temp>> ELSE frame[i]]
    ELSE Append(frame, <<t, temp>>)

(***************************************************************************)
(* update: one step of Newton's law of cooling.                            *)
(***************************************************************************)
\* the step on an enclosure: -r * (T - T_env) * dt rounded outward, r = n/d
update_enclosed(T, system) ==
    LET n       == system.r[1] * system.dt
        d       == system.r[2]
        env     == system.T_env * T[3]
        down(x) == x - Ceil(n * (x - env), d)
        up(x)   == x - Floor(n * (x - env), d)
    IN  <<Min(down(T[1]), down(T[2])), Max(up(T[1]), up(T[2])), T[3]>>

\* mutants: the sign of the heat flow flipped; T_env left out
update_heating(T, system) ==
    RSub(T, RMul(RMul(RNeg(system.r), RSub(T, RInt(system.T_env))),
                 RInt(system.dt)))

update_no_env(T, system) ==
    RAdd(T, RMul(RMul(RNeg(system.r), T), RInt(system.dt)))

update(T, system) ==
    IF IsEnclosure(T)
    THEN update_enclosed(T, system)
    ELSE RAdd(T, RMul(RMul(RNeg(system.r), RSub(T, RInt(system.T_env))),
                      RInt(system.dt)))

(***************************************************************************)
(* linrange(start, stop, step): the evenly spaced values start,            *)
(* start + step, ... that lie in the interval from start to stop, stop     *)
(* included.  A step of 0 raises.                                          *)
(***************************************************************************)
linrange(start, stop, step) ==
    IF step = 0
    THEN [err |-> "ZeroDivisionError", ts |-> <<>>]
    ELSE LET n == IF step > 0
                  THEN (IF stop < start THEN 0
                        ELSE ((stop - start) \div step) + 1)
                  ELSE (IF stop > start THEN 0
                        ELSE ((start - stop) \div (-step)) + 1)
         IN  [err |-> "none", ts |-> [k \in 1..n |-> start + (k - 1) * step]]

(***************************************************************************)
(* run_simulation(system, update).                                         *)
(***************************************************************************)
RECURSIVE RunLoop(_, _, _, _)
RunLoop(frame, ts, i, system) ==
    IF i > Len(ts)
    THEN [err |-> "none", frame |-> frame]
    ELSE IF ~FrameHas(frame, ts[i])
    THEN [err |-> "KeyError", frame |-> frame]
    ELSE RunLoop(FrameSet(frame, ts[i] + system.dt,
                          update(FrameLoc(frame, ts[i]), system)),
                 ts, i + 1, system)

\* run_simulation with the time grid and the first row given
RunWith(system, lr, frame0) ==
    LET loop == RunLoop(frame0, lr.ts, 1, system)
    IN  IF lr.err # "none"
        THEN [err |-> lr.err, system |-> system, steps |-> 0]
        ELSE IF loop.err # "none"
        THEN [err |-> loop.err, system |-> system,
              steps |-> Len(loop.frame) - 1]
        ELSE [err |-> "none",
              system |-> [system EXCEPT !.hasResults = TRUE,
                                        !.results = loop.frame],
              steps |-> Len(lr.ts)]

\* mutant: the grid runs to t_end, not to t_end - dt
run_simulation_full_range(system) ==
    RunWith(system, linrange(system.t0, system.t_end, system.dt),
            FrameSet(<<>>, system.t0, system.init))

\* mutant: the loop body runs once before the grid is consulted
run_simulation_at_least_one(system) ==
    LET lr == linrange(system.t0, system.t_end - system.dt, system.dt)
    IN  RunWith(system,
                IF lr.err = "none" /\ lr.ts = <<>>
                THEN [err |-> "none", ts |-> <<system.t0>>] ELSE lr,
                FrameSet(<<>>, system.t0, system.init))

\* mutant: the run leaves the system's initial state at the final one
run_simulation_advances_init(system) ==
    LET out == RunWith(system,
                       linrange(system.t0, system.t_end - system.dt, system.dt),
                       FrameSet(<<>>, system.t0, system.init))
    IN  IF out.err # "none" THEN out
        ELSE [out EXCEPT !.system.init =
                  out.system.results[Len(out.system.results)][2]]

\* mutant: a system that holds results resumes from their last row
run_simulation_resume(system) ==
    RunWith(system, linrange(system.t0, system.t_end - system.dt, system.dt),
            FrameSet(<<>>, system.t0,
                     IF system.hasResults
                     THEN system.results[Len(system.results)][2]
                     ELSE system.init))

\* the outcome of run_simulation: the error raised ("none": it returned),
\* the system as the call leaves it, and the update steps executed
run_simulation(system) ==
    RunWith(system, linrange(system.t0, system.t_end - system.dt, system.dt),
            FrameSet(<<>>, system.t0, system.init))

(***************************************************************************)
(* final_temp(system).                                                     *)
(***************************************************************************)
\* mutant: no fallback to the initial temperature, results are required
final_temp_no_fallback(system) ==
    IF system.hasResults /\ FrameHas(system.results, system.t_end)
    THEN [err |-> "none", val |-> FrameLoc(system.results, system.t_end)]
    ELSE [err |-> "AttributeError", val |-> RInt(0)]

final_temp(system) ==
    IF system.hasResults
    THEN IF FrameHas(system.results, system.t_end)
         THEN [err |-> "none", val |-> FrameLoc(system.results, system.t_end)]
         ELSE [err |-> "KeyError", val |-> RInt(0)]
    ELSE [err |-> "none", val |-> system.init]

(***************************************************************************)
(* mix(s1, s2).                                                            *)
(***************************************************************************)
\* the mixture of final temperatures ft1 and ft2
Mixture(s1, s2, ft1, ft2) ==
    LET volume == s1.volume + s2.volume
        temp   == RDiv(RAdd(RMul(RInt(s1.volume), ft1),
                            RMul(RInt(s2.volume), ft2)), RInt(volume))
    IN  make_system(temp, s1.r, volume, DefaultTEnd)

\* mix past its assertion
MixBody(s1, s2) ==
    LET ft1 == final_temp(s1)
        ft2 == final_temp(s2)
    IN  IF ft1.err # "none" THEN [err |-> ft1.err, system |-> Unbound]
        ELSE IF ft2.err # "none" THEN [err |-> ft2.err, system |-> Unbound]
        ELSE IF s1.volume + s2.volume = 0
        THEN [err |-> "ZeroDivisionError", system |-> Unbound]
        ELSE [err |-> "none", system |-> Mixture(s1, s2, ft1.val, ft2.val)]

\* mutant: the plain mean of the two temperatures, volumes ignored
mix_unweighted(s1, s2) ==
    LET ft1 == final_temp(s1)
        ft2 == final_temp(s2)
        out == MixBody(s1, s2)
    IN  IF s1.t_end # s2.t_end \/ out.err # "none"
        THEN [err |-> IF s1.t_end # s2.t_end THEN "AssertionError" ELSE out.err,
              system |-> Unbound]
        ELSE [out EXCEPT !.system.init =
                  RDiv(RAdd(ft1.val, ft2.val), RInt(2))]

\* mutant: the liquids are mixed at their initial temperatures
mix_initial_temps(s1, s2) ==
    IF s1.t_end # s2.t_end
    THEN [err |-> "AssertionError", system |-> Unbound]
    ELSE [err |-> "none", system |-> Mixture(s1, s2, s1.init, s2.init)]

\* mutant: the end times are never compared
mix_unchecked(s1, s2) == MixBody(s1, s2)

\* the outcome of mix: the error raised ("none": it returned) and the
\* system returned
mix(s1, s2) ==
    IF s1.t_end # s2.t_end
    THEN [err |-> "AssertionError", system |-> Unbound]
    ELSE MixBody(s1, s2)

(***************************************************************************)
(* error_func1(r): the objective of the calibration.                       *)
(***************************************************************************)
Objective(r, t_end, target) ==
    LET system == make_system(Enclose(90), r, 300, t_end)
        out    == run_simulation(system)
        ft     == final_temp(out.system)
    IN  IF out.err # "none" THEN [err |-> out.err, val |-> Enclose(0)]
        ELSE IF ft.err # "none" THEN [err |-> ft.err, val |-> Enclose(0)]
        ELSE [err |-> "none", val |-> EShift(ft.val, target)]

\* mutants: the goal is 71; the run stops at 15
error_func1_other_goal(r) == Objective(r, 30, 71)

error_func1_half_time(r) == Objective(r, 15, 70)

error_func1(r) == Objective(r, 30, 70)

(***************************************************************************)
(* fsolve(func, x0): a root search from the guess x0 that evaluates the    *)
(* objective, stops when its value is within the tolerance, and gives up   *)
(* when its iteration budget is spent.                                     *)
(***************************************************************************)
\* the whole enclosure e is within eps of 0
Within(e, eps) == -eps < e[1] /\ e[2] < eps

\* the next guess: one grid step toward the root of a falling objective
NextGuess(x, e) ==
    IF e[1] + e[2] > 0 THEN RAdd(x, Rat(1, RateScale))
    ELSE RSub(x, Rat(1, RateScale))

Guesses == {Rat(k, RateScale) : k \in 0..MaxRateK}

(***************************************************************************)
(* The session.                                                            *)
(***************************************************************************)
VARIABLES
    sys,    \* the System object each name is bound to
    last,   \* the last call: what it was, how it ended, what it returned
    solver, \* the root search: its phase, its guess and what it returned
    call    \* the call of run_and_mix: its arguments, its position, its end

vars == <<sys, last, solver, call>>

Idle ==
    [phase |-> "idle", x0 |-> RInt(0), x |-> RInt(0), iter |-> 0,
     e |-> Enclose(0), root |-> RInt(0)]

NoCall ==
    [op |-> "none", name |-> "coffee", name2 |-> "coffee", err |-> "none",
     steps |-> 0, ret |-> <<>>, pre |-> Unbound]

\* no call of run_and_mix yet
NotCalled ==
    [pc |-> "idle", t_add |-> 0, t_total |-> 0, r_coffee |-> RInt(0),
     r_milk |-> RInt(0), err |-> "none", ret |-> <<>>]

Init ==
    /\ sys = [n \in Names |-> Unbound]
    /\ last = NoCall
    /\ solver = Idle
    /\ call = NotCalled

\* name = System(init=State(temp=T_init), volume=300, r=r, T_env=22,
\*               t0=t0, t_end=t_end, dt=dt)
SystemCtor(n, T_init, r, t0, t_end, dt) ==
    /\ sys' = [sys EXCEPT ![n] = System(RInt(T_init), 300, r, DefaultTEnv,
                                        t0, t_end, dt)]
    /\ last' = [NoCall EXCEPT !.op = "System", !.name = n]
    /\ UNCHANGED <<solver, call>>

\* name.t_end = t
SetTEnd(n, t) ==
    /\ sys[n].bound
    /\ sys' = [sys EXCEPT ![n].t_end = t]
    /\ last' = [NoCall EXCEPT !.op = "set_t_end", !.name = n]
    /\ UNCHANGED <<solver, call>>

\* run_simulation(name, update)
RunSimulation(n) ==
    /\ sys[n].bound
    /\ LET out == run_simulation(sys[n])
       IN  /\ sys' = [sys EXCEPT ![n] = out.system]
           /\ last' = [NoCall EXCEPT !.op = "run_simulation", !.name = n,
                                     !.err = out.err, !.steps = out.steps,
                                     !.pre = sys[n]]
    /\ UNCHANGED <<solver, call>>

\* final_temp(name)
FinalTemp(n) ==
    /\ sys[n].bound
    /\ LET out == final_temp(sys[n])
       IN  /\ last' = [NoCall EXCEPT !.op = "final_temp", !.name = n,
                                     !.err = out.err,
                                     !.ret = IF out.err = "none"
                                             THEN <<out.val>> ELSE <<>>]
           /\ UNCHANGED <<sys, solver, call>>

\* name = make_system(T_init=T_init, r=r, volume=volume, t_end=t_end)
MakeSystem(n, T_init, r, volume, t_end) ==
    /\ sys' = [sys EXCEPT ![n] = make_system(T_init, r, volume, t_end)]
    /\ last' = [NoCall EXCEPT !.op = "make_system", !.name = n]
    /\ UNCHANGED <<solver, call>>

\* mixture = mix(n1, n2)
Mix(n1, n2) ==
    /\ sys[n1].bound /\ sys[n2].bound
    /\ LET out == mix(sys[n1], sys[n2])
       IN  /\ sys' = IF out.err = "none"
                     THEN [sys EXCEPT !["mixture"] = out.system]
                     ELSE sys
           /\ last' = [NoCall EXCEPT !.op = "mix", !.name = n1, !.name2 = n2,
                                     !.err = out.err, !.pre = sys["mixture"]]
    /\ UNCHANGED <<solver, call>>

(***************************************************************************)
(* The simulation session binds coffee once: a later System(...) would     *)
(* only start the same session again.                                      *)
(***************************************************************************)
Next ==
    \/ \E T_init \in TInits, r \in Rates, t0 \in T0s, t_end \in TEnds,
          dt \in Dts :
          ~sys["coffee"].bound /\ SystemCtor("coffee", T_init, r, t0, t_end, dt)
    \/ \E t \in TEnds : SetTEnd("coffee", t)
    \/ RunSimulation("coffee")
    \/ FinalTemp("coffee")

Spec == Init /\ [][Next]_vars

(***************************************************************************)
(* The calibration session: solution = fsolve(error_func1, x0), then the   *)
(* cell that makes coffee with r_coffee = solution[0], runs it and reads   *)
(* its final temperature.                                                  *)
(***************************************************************************)
\* solution = fsolve(error_func1, x0): the call
FsolveCall(x0) ==
    /\ solver.phase = "idle"
    /\ solver' = [Idle EXCEPT !.phase = "iterating", !.x0 = x0, !.x = x0]
    /\ UNCHANGED <<sys, last, call>>

\* one iteration: evaluate error_func1 at the guess, then return the guess,
\* give up, or move on
FsolveIterate ==
    /\ solver.phase = "iterating"
    /\ LET out  == error_func1(solver.x)
           next == NextGuess(solver.x, out.val)
       IN  solver' =
             IF out.err # "none"
             THEN [solver EXCEPT !.phase = out.err]
             ELSE IF Within(out.val, Epsilon)
             THEN [solver EXCEPT !.phase = "converged", !.e = out.val,
                                 !.root = solver.x]
             ELSE IF solver.iter >= MaxIter \/ next \notin Guesses
             THEN [solver EXCEPT !.phase = "NonConvergence", !.e = out.val]
             ELSE [solver EXCEPT !.x = next, !.iter = solver.iter + 1,
                                 !.e = out.val]
    /\ UNCHANGED <<sys, last, call>>

NextCalib ==
    \/ \E x0 \in Guesses : FsolveCall(x0)
    \/ FsolveIterate
    \/ /\ solver.phase = "converged"
       /\ MakeSystem("coffee", Enclose(90), solver.root, 300, 30)
    \/ RunSimulation("coffee")
    \/ FinalTemp("coffee")

SpecCalib == Init /\ [][NextCalib]_vars

(***************************************************************************)
(* The mixing session: coffee and milk are made with make_system, run and  *)
(* have their t_end reassigned until a mix of them returns; from then on   *)
(* the session works on the mixture.  A run is bounded to                  *)
(* t_end <= MaxTEnd.                                                       *)
(***************************************************************************)
Liquids == {"coffee", "milk"}

Open(n) == n = "mixture" \/ ~sys["mixture"].bound

NextMix ==
    \/ \E r \in MixRates, t_end \in MixTEnds :
          Open("coffee") /\ MakeSystem("coffee", RInt(90), r, 300, t_end)
    \/ \E r \in MixRates, t_end \in MixTEnds :
          Open("milk") /\ MakeSystem("milk", RInt(5), r, 50, t_end)
    \/ \E n \in Names, t \in MixTEnds : Open(n) /\ SetTEnd(n, t)
    \/ \E n \in Names :
          Open(n) /\ sys[n].t_end <= MaxTEnd /\ RunSimulation(n)
    \/ \E n \in Names : Open(n) /\ FinalTemp(n)
    \/ \E n1 \in Liquids, n2 \in Liquids :
          ~sys["mixture"].bound /\ Mix(n1, n2)

SpecMix == Init /\ [][NextMix]_vars

(***************************************************************************)
(* The trial session: the cells that make coffee (90 C, 300 mL, 30 min)    *)
(* or milk (5 C, 50 mL, 15 min) with a rate tried by hand, run the system  *)
(* and read its final temperature.                                         *)
(***************************************************************************)
NextTrial ==
    \/ \E r \in TrialRates : MakeSystem("coffee", Enclose(90), r, 300, 30)
    \/ \E r \in TrialRates : MakeSystem("milk", Enclose(5), r, 50, 15)
    \/ \E n \in Liquids : RunSimulation(n)
    \/ \E n \in Liquids : FinalTemp(n)

SpecTrial == Init /\ [][NextTrial]_vars

(***************************************************************************)
(* The two policies worked by hand in the mixing cells, as functions of    *)
(* the rates and of the total time (30 in the cells): the final            *)
(* temperature read in the last line, or the error raised on the way.      *)
(***************************************************************************)
\* the outcome of final_temp on the system of outcome out
FinalOf(out) ==
    IF out.err # "none" THEN [err |-> out.err, val |-> RInt(0)]
    ELSE final_temp(out.system)

\* coffee and milk are each run to t_total, then mixed:
\* mix_last = mix(coffee, milk); final_temp(mix_last)
mix_last(r_coffee, r_milk, t_total) ==
    LET coffee == run_simulation(make_system(RInt(90), r_coffee, 300, t_total))
        milk   == run_simulation(make_system(RInt(5), r_milk, 50, t_total))
    IN  IF coffee.err # "none" THEN [err |-> coffee.err, val |-> RInt(0)]
        ELSE IF milk.err # "none" THEN [err |-> milk.err, val |-> RInt(0)]
        ELSE FinalOf(mix(coffee.system, milk.system))

\* coffee and milk are mixed as made, then the mixture is run to t_total:
\* mix_first = mix(coffee, milk); mix_first.t_end = t_total;
\* run_simulation(mix_first, update); final_temp(mix_first)
mix_first(r_coffee, r_milk, t_total) ==
    LET coffee == make_system(RInt(90), r_coffee, 300, DefaultTEnd)
        milk   == make_system(RInt(5), r_milk, 50, DefaultTEnd)
        mixed  == mix(coffee, milk)
    IN  IF mixed.err # "none" THEN [err |-> mixed.err, val |-> RInt(0)]
        ELSE FinalOf(run_simulation([mixed.system EXCEPT !.t_end = t_total]))

(***************************************************************************)
(* run_and_mix(t_add, t_total), one action per line of its body.  coffee,  *)
(* milk and mixture are its local variables; r_coffee and r_milk are the   *)
(* globals it reads.  A line that raises ends the call.                    *)
(***************************************************************************)
\* the call moves on to line pc, or ends with the error err
Goto(pc, err) ==
    IF err = "none" THEN [call EXCEPT !.pc = pc]
    ELSE [call EXCEPT !.pc = "raised", !.err = err]

\* run_and_mix(t_add, t_total) is called
RunAndMixCall(t_add, t_total, r_coffee, r_milk) ==
    /\ call.pc = "idle"
    /\ call' = [NotCalled EXCEPT !.pc = "make_coffee", !.t_add = t_add,
                                 !.t_total = t_total, !.r_coffee = r_coffee,
                                 !.r_milk = r_milk]
    /\ UNCHANGED <<sys, last, solver>>

\* coffee = make_system(T_init=90, t_end=t_add, r=r_coffee, volume=300)
RunAndMixMakeCoffee ==
    /\ call.pc = "make_coffee"
    /\ sys' = [sys EXCEPT !["coffee"] =
                  make_system(RInt(90), call.r_coffee, 300, call.t_add)]
    /\ last' = [NoCall EXCEPT !.op = "make_system", !.name = "coffee"]
    /\ call' = Goto("run_coffee", "none")
    /\ UNCHANGED solver

\* milk = make_system(T_init=5, t_end=t_add, r=r_milk, volume=50)
RunAndMixMakeMilk ==
    /\ call.pc = "make_milk"
    /\ sys' = [sys EXCEPT !["milk"] =
                  make_system(RInt(5), call.r_milk, 50, call.t_add)]
    /\ last' = [NoCall EXCEPT !.op = "make_system", !.name = "milk"]
    /\ call' = Goto("run_milk", "none")
    /\ UNCHANGED solver

\* run_simulation(n, update), at line pc, the next line being next
RunAndMixRun(pc, n, next) ==
    /\ call.pc = pc
    /\ LET out == run_simulation(sys[n])
       IN  /\ sys' = [sys EXCEPT ![n] = out.system]
           /\ last' = [NoCall EXCEPT !.op = "run_simulation", !.name = n,
                                     !.err = out.err, !.steps = out.steps,
                                     !.pre = sys[n]]
           /\ call' = Goto(next, out.err)
    /\ UNCHANGED solver

\* mixture = mix(coffee, milk)
RunAndMixMix ==
    /\ call.pc = "mix"
    /\ LET out == mix(sys["coffee"], sys["milk"])
       IN  /\ sys' = IF out.err = "none"
                     THEN [sys EXCEPT !["mixture"] = out.system]
                     ELSE sys
           /\ last' = [NoCall EXCEPT !.op = "mix", !.name = "coffee",
                                     !.name2 = "milk", !.err = out.err,
                                     !.pre = sys["mixture"]]
           /\ call' = Goto("set_t_end", out.err)
    /\ UNCHANGED solver

\* mixture.t_end = t_total - t_add
RunAndMixSetTEnd ==
    /\ call.pc = "set_t_end"
    /\ sys' = [sys EXCEPT !["mixture"].t_end = call.t_total - call.t_add]
    /\ last' = [NoCall EXCEPT !.op = "set_t_end", !.name = "mixture"]
    /\ call' = Goto("run_mixture", "none")
    /\ UNCHANGED solver

\* return final_temp(mixture)
RunAndMixReturn ==
    /\ call.pc = "return"
    /\ LET out == final_temp(sys["mixture"])
       IN  /\ last' = [NoCall EXCEPT !.op = "final_temp", !.name = "mixture",
                                     !.err = out.err,
                                     !.ret = IF out.err = "none"
                                             THEN <<out.val>> ELSE <<>>]
           /\ call' = IF out.err = "none"
                      THEN [call EXCEPT !.pc = "done", !.ret = <<out.val>>]
                      ELSE Goto("done", out.err)
    /\ UNCHANGED <<sys, solver>>

NextRunAndMix ==
    \/ \E t_add \in TAdds, t_total \in TTotals,
          r_coffee \in MixRates, r_milk \in MixRates :
          RunAndMixCall(t_add, t_total, r_coffee, r_milk)
    \/ RunAndMixMakeCoffee
    \/ RunAndMixRun("run_coffee", "coffee", "make_milk")
    \/ RunAndMixMakeMilk
    \/ RunAndMixRun("run_milk", "milk", "mix")
    \/ RunAndMixMix
    \/ RunAndMixSetTEnd
    \/ RunAndMixRun("run_mixture", "mixture", "return")
    \/ RunAndMixReturn

SpecRunAndMix == Init /\ [][NextRunAndMix]_vars

(***************************************************************************)
(* The claims.                                                             *)
(***************************************************************************)
Ran     == last.op = "run_simulation"
RanOk   == Ran /\ last.err = "none"
cur     == sys[last.name]
Valid(s) == s.dt > 0 /\ s.t_end >= s.t0
Divides(s) == (s.t_end - s.t0) % s.dt = 0
CeilDiv(a, b) == (a + b - 1) \div b
LastRow(frame) == frame[Len(frame)]

\* the rows' times start at t0 and go up by exactly dt
GridOk(frame, t0, dt) ==
    /\ Len(frame) >= 1
    /\ frame[1][1] = t0
    /\ \A i \in 2..Len(frame) :
          /\ frame[i][1] = frame[i - 1][1] + dt
          /\ frame[i][1] > frame[i - 1][1]

TrajectoryOk ==
    /\ last.err = "none"
    /\ cur.hasResults
    /\ GridOk(cur.results, last.pre.t0, last.pre.dt)
    /\ LastRow(cur.results)[1] = last.pre.t_end
    /\ last.steps = CeilDiv(last.pre.t_end - last.pre.t0, last.pre.dt)
    /\ last.steps = Len(cur.results) - 1

\* C1 as stated: for every valid system (dt > 0, t_end >= t0) the recorded
\* times start at t0, rise by exactly dt, end at t_end, and the loop makes
\* ceil((t_end - t0)/dt) update steps.
C1_AnyValidSystem == (Ran /\ Valid(last.pre)) => TrajectoryOk

\* C1 amended: the same for every valid system whose dt divides t_end - t0
\* (the only systems for which a grid from t0 in steps of dt can end at t_end).
C1_GridEndsAtTEnd ==
    (Ran /\ Valid(last.pre) /\ Divides(last.pre)) => TrajectoryOk

C1_Witness ==
    /\ Ran /\ Valid(last.pre) /\ Divides(last.pre)
    /\ last.pre.t0 = 1 /\ last.steps >= 2 /\ TrajectoryOk

\* the cooling rule written out: T - r * dt * (T - T_env)
Cooled(T, s) ==
    RSub(T, RMul(RMul(s.r, RInt(s.dt)), RSub(T, RInt(s.T_env))))

\* C2: the trajectory's first entry is the initial state at t0, and every
\* later entry, at time t + dt, is the update rule applied to the entry at
\* time t, the rule giving T + (-r * (T - T_env) * dt).
C2_TrajectoryFollowsUpdate ==
    RanOk =>
        /\ cur.results[1] = <<last.pre.t0, last.pre.init>>
        /\ \A i \in 2..Len(cur.results) :
              /\ cur.results[i][1] = cur.results[i - 1][1] + last.pre.dt
              /\ cur.results[i][2] = Cooled(cur.results[i - 1][2], last.pre)

C2_Witness ==
    /\ RanOk /\ Len(cur.results) >= 3
    /\ cur.results[2][2] # cur.results[1][2]
    /\ cur.results[3][2] # cur.results[2][2]

\* C3 as stated: run_simulation leaves every field of the system as it was
\* and hands the trajectory back as its return value.
C3_SystemUntouched == RanOk => (cur = last.pre /\ last.ret # <<>>)

\* C3 amended: run_simulation leaves every parameter field of the system
\* (init, volume, r, T_env, t0, t_end, dt) as it was, stores the trajectory
\* on the system as its results, and returns nothing; a run that raises
\* leaves the whole system as it was.
C3_ParamsUntouchedResultsStored ==
    Ran =>
        /\ Params(cur) = Params(last.pre)
        /\ last.ret = <<>>
        /\ last.err = "none" => cur.hasResults /\ Len(cur.results) >= 1
        /\ last.err # "none" => cur = last.pre

C3_Witness ==
    /\ RanOk /\ ~last.pre.hasResults /\ cur.hasResults
    /\ Len(cur.results) >= 2 /\ Params(cur) = Params(last.pre)

\* C4 as stated: with dt <= 0 or t_end < t0, run_simulation raises before
\* any update step and records no trajectory on the system.
C4_InvalidParametersRejected ==
    (Ran /\ ~Valid(last.pre)) =>
        /\ last.err # "none"
        /\ last.steps = 0
        /\ cur = last.pre

\* distance from the environment's temperature, and the side a row is on
Dist(T, s) == RAbs(RSub(T, RInt(s.T_env)))
Side(T, s) == RSign(RSub(T, RInt(s.T_env)))

NoOvershoot(frame, s) ==
    \A i \in 2..Len(frame) :
        /\ RLe(Dist(frame[i][2], s), Dist(frame[i - 1][2], s))
        /\ Side(frame[i][2], s) * Side(frame[i - 1][2], s) >= 0

\* r * dt <= 1
Stable(s) == RLe(RMul(s.r, RInt(s.dt)), RInt(1))

\* C7 as stated: for every valid system with r > 0 the trajectory moves
\* monotonically toward T_env, never overshooting it.
C7_AnyPositiveRate ==
    (RanOk /\ Valid(last.pre) /\ last.pre.r[1] > 0)
        => NoOvershoot(cur.results, last.pre)

\* C7 amended: for every valid system with r > 0 and r * dt <= 1 the
\* trajectory moves monotonically toward T_env, never overshooting it.
C7_StableStep ==
    (RanOk /\ Valid(last.pre) /\ last.pre.r[1] > 0 /\ Stable(last.pre))
        => NoOvershoot(cur.results, last.pre)

C7_Witness ==
    /\ RanOk /\ Valid(last.pre) /\ last.pre.r[1] > 0 /\ Stable(last.pre)
    /\ Len(cur.results) >= 3
    /\ RLt(Dist(cur.results[3][2], last.pre), Dist(cur.results[1][2], last.pre))
    /\ RLt(RInt(0), Dist(cur.results[3][2], last.pre))

\* C9: a second run_simulation on a system that holds the results of a
\* first run with the same parameters records the identical trajectory.
C9_RerunIdentical ==
    [][(RanOk /\ last'.op = "run_simulation" /\ last'.name = last.name)
        => (last'.err = "none" /\ sys'[last.name].results = cur.results)]_vars

C9_Witness ==
    /\ RanOk /\ last.pre.hasResults /\ Params(last.pre) = Params(cur)
    /\ Len(cur.results) >= 3 /\ cur.results = last.pre.results
    /\ cur.results[3][2] # cur.results[1][2]

\* C10: with t_end = t0 (and a step that is not 0) run_simulation makes no
\* update step and records the single entry (t0, initial state).
C10_SinglePoint ==
    (Ran /\ last.pre.t_end = last.pre.t0 /\ last.pre.dt # 0) =>
        /\ last.err = "none"
        /\ last.steps = 0
        /\ cur.results = <<<<last.pre.t0, last.pre.init>>>>

C10_Witness ==
    /\ RanOk /\ last.pre.t_end = last.pre.t0 /\ last.pre.t0 = 1
    /\ last.pre.dt = 1 /\ Len(cur.results) = 1

Mixed   == last.op = "mix"
s1      == sys[last.name]
s2      == sys[last.name2]
mixture == sys["mixture"]

\* (v1 * T1 + v2 * T2) / (v1 + v2)
WeightedMean(v1, T1, v2, T2) ==
    RDiv(RAdd(RMul(RInt(v1), T1), RMul(RInt(v2), T2)), RInt(v1 + v2))

\* C5: for any two systems with equal t_end, mix returns a new system of
\* volume s1.volume + s2.volume and initial temperature
\* (s1.volume * final_temp(s1) + s2.volume * final_temp(s2)) /
\* (s1.volume + s2.volume).  Violated: a system whose results hold no row
\* at its t_end (t_end reassigned after the run) makes final_temp, and so
\* mix, raise KeyError.
C5_AnyEqualTEnd ==
    (Mixed /\ s1.t_end = s2.t_end) =>
        /\ last.err = "none"
        /\ mixture.bound
        /\ mixture.volume = s1.volume + s2.volume
        /\ mixture.init = WeightedMean(s1.volume, final_temp(s1).val,
                                       s2.volume, final_temp(s2).val)

\* C5, where final_temp returns for both systems: mix returns the system
\* that make_system builds from the summed volume and the weighted mean.
C5_MixWeightedMean ==
    (/\ Mixed /\ s1.t_end = s2.t_end
     /\ final_temp(s1).err = "none" /\ final_temp(s2).err = "none") =>
        /\ last.err = "none"
        /\ mixture.bound /\ ~mixture.hasResults
        /\ mixture.volume = s1.volume + s2.volume
        /\ mixture.init = WeightedMean(s1.volume, final_temp(s1).val,
                                       s2.volume, final_temp(s2).val)

C5_Witness ==
    /\ Mixed /\ last.err = "none" /\ last.name # last.name2
    /\ s1.hasResults /\ s2.hasResults /\ s1.t_end = 2
    /\ final_temp(s1).val # s1.init /\ final_temp(s2).val # s2.init
    /\ mixture.volume = 350

\* C6: mix of two systems whose t_end differ raises (the assertion's
\* error) and binds no mixture, and it raises before anything is computed:
\* also when final_temp would raise for one of the systems.
C6_PhaseMismatch ==
    (Mixed /\ s1.t_end # s2.t_end) =>
        /\ last.err = "AssertionError"
        /\ mixture = last.pre

C6_Witness ==
    /\ Mixed /\ s1.t_end # s2.t_end /\ last.err = "AssertionError"
    /\ final_temp(s1).err = "KeyError" /\ ~mixture.bound

Near(T, c, tol) ==
    (c - tol) * T[3] <= T[1] * 100 /\ T[2] * 100 <= (c + tol) * T[3]

\* final_temp has returned for coffee after the run of
\* make_system(T_init=90, r=0.01, volume=300, t_end=30)
Scenario1 ==
    /\ last.op = "final_temp" /\ last.name = "coffee" /\ last.err = "none"
    /\ sys["coffee"].hasResults
    /\ Params(sys["coffee"]) =
           Params(make_system(Enclose(90), Rat(1, 100), 300, 30))

\* C11 as stated: scenario 1 ends within 0.1 of 72.19.  Violated: it ends
\* at 72.2996..., more than 0.1 above 72.19.
C11_Within72_19 == Scenario1 => Near(last.ret[1], 7219, 10)

\* C11: running the simulator with T_init=90, T_env=22, r=0.01, t0=0,
\* t_end=30, dt=1 and the cooling update rule gives a terminal temperature
\* within 0.1 of 72.30.
C11_Within72_30 == Scenario1 => Near(last.ret[1], 7230, 10)

\* scenario 1 has ended, and wholly above 72.29 = 72.19 + 0.1
C11_Witness ==
    /\ Scenario1 /\ Len(sys["coffee"].results) = 31
    /\ last.ret[1][1] * 100 > 7229 * last.ret[1][3]

\* the terminal state of a system: its initial temperature if it was never
\* simulated, else the temperature at the final time of its trajectory
Terminal(s) ==
    IF s.hasResults THEN LastRow(s.results)[2] ELSE s.init

\* C13: in every state reachable by make_system, assignment to t_end,
\* run_simulation and mix, final_temp(system) returns the initial
\* temperature of a system never simulated and otherwise the temperature
\* recorded at the final time of its trajectory.  Violated: final_temp
\* looks the row up at the current t_end, so after t_end is reassigned it
\* raises KeyError or returns a row that is not the last.
C13_FinalTempIsTerminal ==
    \A n \in Names :
        sys[n].bound =>
            final_temp(sys[n]) = [err |-> "none", val |-> Terminal(sys[n])]

\* the arguments of the call satisfy 0 <= t_add <= t_total
InRange == 0 <= call.t_add /\ call.t_add <= call.t_total

\* s holds a trajectory of its own cooling from its initial temperature at
\* time 0 to time t, one step of dt = 1 at a time
SimulatedTo(s, t) ==
    /\ s.hasResults
    /\ GridOk(s.results, 0, 1)
    /\ s.results[1][2] = s.init
    /\ LastRow(s.results)[1] = t
    /\ \A i \in 2..Len(s.results) :
          s.results[i][2] = Cooled(s.results[i - 1][2], s)

Agrees(policy) ==
    /\ call.pc = "done"
    /\ policy.err = "none"
    /\ call.ret = <<policy.val>>

Ended == call.pc \in {"done", "raised"}

\* C14: run_and_mix agrees with the two policies worked by hand at its
\* endpoints: run_and_mix(t_total, t_total) returns final_temp(mix(coffee,
\* milk)) for coffee and milk each simulated to t_total (mix last), and
\* run_and_mix(0, t_total) returns the final temperature of the mixture of
\* the two never-simulated systems after it is simulated for t_total
\* (mix first).
C14_EndpointsAgree ==
    /\ (Ended /\ call.t_add = call.t_total) =>
          Agrees(mix_last(call.r_coffee, call.r_milk, call.t_total))
    /\ (Ended /\ call.t_add = 0) =>
          Agrees(mix_first(call.r_coffee, call.r_milk, call.t_total))

\* run_and_mix(0, 3) has returned the mix-first temperature, which is not
\* the mix-last one
C14_Witness ==
    /\ call.pc = "done" /\ call.t_add = 0 /\ call.t_total = 3
    /\ call.r_coffee # RInt(0) /\ call.r_milk # call.r_coffee
    /\ call.ret = <<mix_first(call.r_coffee, call.r_milk, 3).val>>
    /\ call.ret # <<mix_last(call.r_coffee, call.r_milk, 3).val>>
    /\ call.ret # <<sys["mixture"].init>>

====
